---- MODULE Spec2Model ----
(***************************************************************************)
(* Model of ffizer's source retrieval: SourceLoc::download                 *)
(* (src/src/source_loc.rs) and git::retrieve (src/src/git.rs).             *)
(*                                                                         *)
(* Paths are records [abs, comps]: the component view std::path gives of  *)
(* a string (split at "/").  A String that is used as a path (the host,   *)
(* the revision) is a sequence of components as well, so that PathBuf::join*)
(* is computed as it is in the code: concatenation of components, and     *)
(* replacement when the right-hand side is absolute.                      *)
(* Option<T> is a sequence of length 0 (None) or 1 (Some).                *)
(* Result<T, E> is [ok |-> TRUE, val |-> t] or [ok |-> FALSE, err |-> e]. *)
(***************************************************************************)
EXTENDS Naturals, Sequences, FiniteSets, TLC

VARIABLES
    home,         \* environment: whether the platform cache directory can be determined
    remote,       \* remote[url]: number of commits on the remote's branch master
    fs,           \* fs[dir]: the cache directory dir on disk
    pc,           \* pc[p]: position of caller p inside download / retrieve
    call,         \* call[p]: the arguments of p's current download (self, offline)
    remote_path,  \* remote_path[p]: download's local remote_path (Option)
    v,            \* v[p]: the error git::retrieve returned to download (Option)
    seen,         \* seen[p]: the head of the remote's master when the call cloned or fetched (0: not yet)
    rm,           \* rm[p]: what download's cleanup did: "none", "absent", "removed", "failed"
    result,       \* result[p]: what download returned (Option of Result)
    obs,          \* obs[p]: what p's current call did: the kind of dst when retrieve was
                  \* entered, the calls of retrieve, the network operations, the fetch
                  \* options retrieve built and the credentials the callback gave
    prev,         \* prev[p]: history, p's previous download when retrieve failed in it and
                  \* the current download is of the same cache key (Option)
    okSince       \* history: the remote locations with a subfolder that an online download
                  \* returned Ok for, with no failed or killed download of the same cache
                  \* key since

vars == <<home, remote, fs, pc, call, remote_path, v, seen, rm, result, obs, prev, okSince>>

\* ------------------------------------------------------------------ bounds
\* Number of commits the remote's master may grow to.
MaxCommits == 3

\* ------------------------------------------------------------------ values
None == <<>>
Some(x) == <<x>>
Ok(x) == [ok |-> TRUE, val |-> x]
Err(e) == [ok |-> FALSE, err |-> e]

\* crate::Error variants used by the two files
\* (source: the underlying error, kept as the cause)
GitRetrieve(dst, url, rev, source) ==
    [kind |-> "GitRetrieve", dst |-> dst, url |-> url, rev |-> rev, source |-> source]
CreateFolder(path, source) == [kind |-> "CreateFolder", path |-> path, source |-> source]
RemoveFolder(path, source) == [kind |-> "RemoveFolder", path |-> path, source |-> source]
LocalPathNotFound(path, uri, subfolder) ==
    [kind |-> "LocalPathNotFound", path |-> path, uri |-> uri, subfolder |-> subfolder]
Io == [kind |-> "Io"]
ApplicationPathNotFound == [kind |-> "ApplicationPathNotFound"]

\* ------------------------------------------------------------------ paths
Abs(comps) == [abs |-> TRUE, comps |-> comps]
Rel(comps) == [abs |-> FALSE, comps |-> comps]

\* PathBuf::join: an absolute right-hand side replaces the path
Join(p, q) == IF q.abs THEN q ELSE [abs |-> p.abs, comps |-> p.comps \o q.comps]

\* ProjectDirs::cache_dir() of the application
CacheBase == Abs(<<"cache">>)
\* the process's working directory, against which canonicalize resolves
Cwd == Abs(<<"work">>)
\* the local directories that exist (outside the cache)
LocalTree == { Abs(<<"work", "x">>), Abs(<<"work", "x", "sub">>), Abs(<<"work", "y">>) }

\* ------------------------------------------------------------------ SourceLoc
\* struct SourceLoc, with uri: SourceUri {raw, host, path}
SourceLoc(raw, host, path, rev, subfolder) ==
    [uri |-> [raw |-> raw, host |-> host, path |-> path],
     rev |-> rev, usr |-> None, pwd |-> None, subfolder |-> subfolder,
     unsecure_certificate |-> FALSE, disable_proxy_options |-> FALSE]

Master == <<"master">>
Sub == Rel(<<"sub">>)

\* a source location with the user, the password and the two transport flags set
WithTransport(s, usr, pwd, unsecure, no_proxy) ==
    [s EXCEPT !.usr = usr, !.pwd = pwd,
              !.unsecure_certificate = unsecure, !.disable_proxy_options = no_proxy]

\* The source locations download is called with.  The revision "b/master" of
\* the second url is a tag; its components are those of the path it is joined as.
RemoteLocs ==
    { SourceLoc("u1", Some("h"), Rel(<<"a", "b">>), Master, None),
      SourceLoc("u1", Some("h"), Rel(<<"a", "b">>), Master, Some(Sub)),
      WithTransport(SourceLoc("u2", Some("h"), Rel(<<"a">>), <<"b", "master">>, None),
                    Some("usr"), Some("pwd"), TRUE, TRUE),
      WithTransport(SourceLoc("u1", Some("h"), Rel(<<"a", "b">>), Master, None),
                    Some("usr"), None, FALSE, FALSE) }
LocalLocs ==
    { SourceLoc("x", None, Rel(<<"x">>), Master, Some(Sub)),
      SourceLoc("y", None, Rel(<<"y">>), Master, Some(Sub)),
      SourceLoc("m", None, Rel(<<"m">>), Master, None) }
Locs == RemoteLocs \cup LocalLocs
Urls == { s.uri.raw : s \in RemoteLocs }

\* the cache key of a source location: (host, path, revision)
KeyOf(s) == [host |-> s.uri.host[1], path |-> s.uri.path, rev |-> s.rev]

\* SourceLoc::find_remote_cache_folder; h: whether ProjectDirs::from finds a home
find_remote_cache_folder(h) ==
    IF h THEN Ok(Join(CacheBase, Rel(<<"git">>))) ELSE Err(ApplicationPathNotFound)

\* remote_as_local with the subfolder joined into the cache directory
remote_as_local_sub(h, s) ==
    LET base == find_remote_cache_folder(h)
        host == IF s.uri.host = None THEN "no_host" ELSE s.uri.host[1]
        dir == Join(Join(Join(base.val, Rel(<<host>>)), s.uri.path), Rel(s.rev))
    IN  IF ~base.ok THEN base
        ELSE Ok(IF s.subfolder = None THEN dir ELSE Join(dir, s.subfolder[1]))

\* SourceLoc::remote_as_local
remote_as_local(h, s) ==
    LET base == find_remote_cache_folder(h)
        host == IF s.uri.host = None THEN "no_host" ELSE s.uri.host[1]
    IN  IF ~base.ok THEN base
        ELSE Ok(Join(Join(Join(base.val, Rel(<<host>>)), s.uri.path), Rel(s.rev)))

\* Path::canonicalize: fails when the path does not exist
canonicalize(p) ==
    LET a == Join(Cwd, p) IN IF a \in LocalTree THEN Ok(a) ELSE Err(Io)

\* SourceLoc::as_local_path
as_local_path(h, s) ==
    LET path == IF s.uri.host = None THEN canonicalize(s.uri.path)
                ELSE remote_as_local(h, s)
    IN  IF ~path.ok THEN path
        ELSE IF s.subfolder # None THEN Ok(Join(path.val, s.subfolder[1]))
        ELSE path

\* creds that are Some as soon as a user is set, with an empty password by default
creds_usr(s) ==
    IF s.usr # None
    THEN Some(<<s.usr[1], IF s.pwd # None THEN s.pwd[1] ELSE "">>)
    ELSE None

\* download's creds: Some only when both usr and pwd are set
creds(s) ==
    IF s.usr # None /\ s.pwd # None THEN Some(<<s.usr[1], s.pwd[1]>>) ELSE None

\* the cache directories the source locations resolve to
Dirs == { remote_as_local(TRUE, s).val : s \in RemoteLocs }

\* ------------------------------------------------------------------ disk and remote
\* A cache directory on disk: absent, an empty directory, a directory with
\* partial content, or a git working tree cloned from origin, whose local
\* branch master points at commit `master` (HEAD), whose working tree holds
\* the tree of commit `wt`, with FETCH_HEAD (0: none) and the transient merge state.
AbsentDir == [kind |-> "absent", origin |-> "", master |-> 0, wt |-> 0,
              fetch_head |-> 0, merging |-> FALSE]
EmptyDir == [AbsentDir EXCEPT !.kind = "empty"]
PartialDir == [AbsentDir EXCEPT !.kind = "partial"]

\* Path::exists on a cache directory
Exists(d) == d.kind # "absent"

\* The remotes: commits 1..remote[url] in a line on branch master; commit n
\* writes version n of the tracked file, and the subfolder is added by commit 2.
\* Tags point at the first commit.
Tags(url) == IF url = "u2" THEN { <<"b", "master">> } ELSE {}
TreeHasSub(commit) == commit > 1

\* Path::exists on a resolved path
PathExists(f, path) ==
    IF path \in Dirs THEN Exists(f[path])
    ELSE IF \E d \in Dirs : path = Join(d, Sub)
         THEN LET d == CHOOSE d \in Dirs : path = Join(d, Sub)
              IN  f[d].kind = "repo" /\ TreeHasSub(f[d].wt)
         ELSE path \in LocalTree

\* ------------------------------------------------------------------ git.rs
\* make_fetch_options: the credentials callback is chosen once, from
\* credentials; only Config::open_default (no credentials given) can fail.
\* The proxy options are always proxy_options.auto(), and no certificate
\* check is installed, so that certificates are verified as libgit2 does by default.
make_fetch_options(credentials, cfg_ok) ==
    IF credentials = None /\ ~cfg_ok THEN Err("open_default")
    ELSE Ok([credentials |->
                IF credentials = None THEN [kind |-> "CredentialHandler"]
                ELSE [kind |-> "userpass", usr |-> credentials[1][1],
                      pwd |-> credentials[1][2]],
             proxy_auto |-> TRUE,
             verify_certificate |-> TRUE,
             download_tags |-> "All",
             update_fetchhead |-> TRUE])

\* the kinds of credentials the transport asks for in a network operation
\* (git2::CredentialType)
CredentialTypes == {"USER_PASS_PLAINTEXT", "SSH_KEY"}

\* the credentials callback of the fetch options, called with the allowed type
credentials_cb(fo, allowed) ==
    IF fo.credentials.kind = "userpass"
    THEN [cred |-> "userpass_plaintext", usr |-> fo.credentials.usr,
          pwd |-> fo.credentials.pwd]
    ELSE [cred |-> "try_next_credential"]

\* Repository::revparse_single in a clone d: the commit rev names (0: none)
revparse_single(d, rev) ==
    IF rev = Master THEN d.master
    ELSE IF rev \in Tags(d.origin) THEN 1
    ELSE 0

\* checkout(dst, rev): discover, revparse_single, forced checkout_tree
checkout(d, rev, io_ok) ==
    IF d.kind # "repo" THEN Err("discover")
    ELSE IF revparse_single(d, rev) = 0 THEN Err("revparse_single")
    ELSE IF ~io_ok THEN Err("checkout_tree")
    ELSE Ok([d EXCEPT !.wt = revparse_single(d, rev)])

\* std::fs::create_dir_all
create_dir_all(d, io_ok) ==
    IF ~io_ok THEN Err("create_dir_all")
    ELSE Ok(IF Exists(d) THEN d ELSE EmptyDir)

\* RepoBuilder::new().branch(rev).clone(url, dst): needs a directory that is
\* empty, or absent (it is then created), and a branch rev on the remote (the
\* remotes have the branch master only)
repo_clone(d, url, rev, head, net_ok) ==
    IF d.kind \notin {"empty", "absent"} THEN Err("clone: exists and is not an empty directory")
    ELSE IF ~net_ok THEN Err("clone: network")
    ELSE IF rev # Master THEN Err("clone: reference not found")
    ELSE Ok([kind |-> "repo", origin |-> url, master |-> head, wt |-> head,
             fetch_head |-> 0, merging |-> FALSE])

\* pull: Repository::discover, find_remote("origin"), remote.fetch(&[rev])
\* head: the origin's master at the time of the fetch
pull_fetch(d, rev, head, net_ok) ==
    IF d.kind # "repo" THEN Err("discover")
    ELSE IF ~net_ok THEN Err("network")
    ELSE IF rev = Master THEN Ok([d EXCEPT !.fetch_head = head])
    ELSE IF rev \in Tags(d.origin) THEN Ok([d EXCEPT !.fetch_head = 1])
    ELSE Err("couldn't find remote ref")

\* a merge that leaves the working directory as checkout left it
pull_merge_keep(d, io_ok) ==
    IF d.kind # "repo" \/ d.fetch_head = 0 THEN Err("FETCH_HEAD")
    ELSE IF ~io_ok THEN Err("merge")
    ELSE Ok([d EXCEPT !.merging = TRUE])

\* pull: find_reference("FETCH_HEAD"), reference_to_annotated_commit,
\* repository.merge: merges FETCH_HEAD into HEAD and writes the result into the
\* working directory; history is a line, so the merge of an ancestor or of HEAD
\* itself changes nothing, and the merge of a descendant yields its tree unless
\* the working directory differs from HEAD
pull_merge(d, io_ok) ==
    IF d.kind # "repo" \/ d.fetch_head = 0 THEN Err("FETCH_HEAD")
    ELSE IF ~io_ok THEN Err("merge")
    ELSE IF d.fetch_head <= d.master THEN Ok([d EXCEPT !.merging = TRUE])
    ELSE IF d.wt # d.master THEN Err("conflict")
    ELSE Ok([d EXCEPT !.wt = d.fetch_head, !.merging = TRUE])

\* pull: repository.cleanup_state
cleanup_state(d, io_ok) ==
    IF ~io_ok THEN Err("cleanup_state") ELSE Ok([d EXCEPT !.merging = FALSE])

\* retrieve that clones whether or not the destination exists
retrieve_branch_clone(exists) == "create_dir_all"

\* retrieve: if dst.exists() { checkout; pull } else { clone; checkout }
retrieve_branch(exists) == IF exists THEN "checkout" ELSE "create_dir_all"

\* an update that merges before it fetches
update_next_merge_first(step) ==
    IF step = "checkout" THEN "merge"
    ELSE IF step = "merge" THEN "fetch"
    ELSE IF step = "fetch" THEN "disconnect"
    ELSE IF step = "disconnect" THEN "cleanup_state"
    ELSE "resolve"

\* retrieve, dst exists: the step that follows a successful step:
\* checkout; then in pull fetch, disconnect, merge, cleanup_state; then Ok(())
update_next(step) ==
    IF step = "checkout" THEN "fetch"
    ELSE IF step = "fetch" THEN "disconnect"
    ELSE IF step = "disconnect" THEN "merge"
    ELSE IF step = "merge" THEN "cleanup_state"
    ELSE "resolve"

\* a retrieve for which a successful clone is the end
clone_next_terminal(step) ==
    IF step = "create_dir_all" THEN "clone" ELSE "resolve"

\* retrieve, dst absent: the step that follows a successful step:
\* in clone create_dir_all, RepoBuilder::clone; then checkout; then Ok(())
clone_next(step) ==
    IF step = "create_dir_all" THEN "clone"
    ELSE IF step = "clone" THEN "checkout_new"
    ELSE "resolve"

\* a step that is tried again when it fails
on_error_retry(step) == step

\* the ? operator: the first error ends retrieve, and download handles it
on_error(step) == "failed"

\* retrieve that clones the requested revision as a branch
clone_rev_requested(rev) == rev

\* the revision retrieve passes to clone
clone_rev(rev) == Master

\* ------------------------------------------------------------------ source_loc.rs
\* download that retrieves every remote source, offline or not
download_online_any(s, offline) == s.uri.host # None

\* download: if !offline && self.uri.host.is_some()
download_online(s, offline) == ~offline /\ s.uri.host # None

\* a cleanup that empties the directory and keeps it
cleanup_dir_contents(d, rm_ok, left) ==
    IF ~Exists(d) THEN d ELSE IF rm_ok THEN EmptyDir ELSE left

\* a cleanup that removes nothing
cleanup_dir_keep(d, rm_ok, left) == d

\* download, on Err(v) of retrieve: what remove_dir_all leaves of the directory
\* (left: what a failed removal leaves behind)
cleanup_dir(d, rm_ok, left) ==
    IF ~Exists(d) THEN d ELSE IF rm_ok THEN AbsentDir ELSE left

\* a cleanup that ignores the outcome of the removal
cleanup_result_v(d, rm_ok, verr, path) == Err(verr)

\* download, on Err(v) of retrieve: the error returned
cleanup_result(d, rm_ok, verr, path) ==
    IF Exists(d) /\ ~rm_ok THEN Err(RemoveFolder(path, "remove_dir_all")) ELSE Err(verr)

\* download that returns the resolved path without checking that it exists
download_result_unchecked(h, s, f) ==
    LET path == as_local_path(h, s)
    IN  IF ~path.ok THEN Err(path.err) ELSE Ok(path.val)

\* download whose LocalPathNotFound drops the subfolder
download_result_no_subfolder(h, s, f) ==
    LET path == as_local_path(h, s)
    IN  IF ~path.ok THEN Err(path.err)
        ELSE IF ~PathExists(f, path.val)
             THEN Err(LocalPathNotFound(path.val, s.uri.raw, None))
        ELSE Ok(path.val)

\* download, after the retrieval: as_local_path and the existence check
download_result(h, s, f) ==
    LET path == as_local_path(h, s)
    IN  IF ~path.ok THEN Err(path.err)
        ELSE IF ~PathExists(f, path.val)
             THEN Err(LocalPathNotFound(path.val, s.uri.raw, s.subfolder))
        ELSE Ok(path.val)

\* ------------------------------------------------------------------ state machine
Procs == {1, 2}

Self(p) == call[p][1].self
Offline(p) == call[p][1].offline
Dst(p) == remote_path[p][1]

\* positions inside git::retrieve
InUpdate == {"checkout", "fetch", "disconnect", "merge", "cleanup_state"}
InClone == {"create_dir_all", "clone", "checkout_new"}
InRetrieve == {"retrieve"} \cup InUpdate \cup InClone

\* a call that has done nothing yet
NoObs == [start |-> "none", retrieves |-> 0, network |-> 0, fo |-> None, auth |-> {}]

TypeOK ==
    /\ home \in BOOLEAN
    /\ remote \in [Urls -> 1..MaxCommits]
    /\ DOMAIN fs = Dirs
    /\ okSince \subseteq RemoteLocs
    /\ \A p \in Procs :
        pc[p] \in {"off", "idle", "failed", "resolve", "done"} \cup InRetrieve

InitFor(callers, heads) ==
    /\ home \in BOOLEAN
    /\ remote \in [Urls -> heads]
    /\ fs = [d \in Dirs |-> AbsentDir]
    /\ pc = [p \in Procs |-> IF p \in callers THEN "idle" ELSE "off"]
    /\ call = [p \in Procs |-> None]
    /\ remote_path = [p \in Procs |-> None]
    /\ v = [p \in Procs |-> None]
    /\ seen = [p \in Procs |-> 0]
    /\ rm = [p \in Procs |-> "none"]
    /\ result = [p \in Procs |-> None]
    /\ obs = [p \in Procs |-> NoObs]
    /\ prev = [p \in Procs |-> None]
    /\ okSince = {}

\* one caller at a time
Init == InitFor({1}, {1})

\* retrieve returns Err(e) to download
Fail(p, e) ==
    /\ v' = [v EXCEPT ![p] = Some(e)]
    /\ pc' = [pc EXCEPT ![p] = on_error(pc[p])]

\* the locations whose downloads okSince follows: without a subfolder the path
\* a download returns is the cache directory itself, which only the cleanup of
\* a failed download removes
Followed == { s \in RemoteLocs : s.subfolder # None }

\* download(s, offline) returns r
Return(p, s, offline, r) ==
    /\ result' = [result EXCEPT ![p] = Some(r)]
    /\ pc' = [pc EXCEPT ![p] = "done"]
    /\ okSince' = IF s \notin RemoteLocs THEN okSince
                  ELSE IF ~r.ok THEN { t \in okSince : KeyOf(t) # KeyOf(s) }
                  ELSE IF offline THEN okSince
                  ELSE okSince \cup ({s} \cap Followed)

\* what a download of s by p remembers of p's previous download: the kind of
\* dst when retrieve was entered and what the cleanup did
Summary(p, s) ==
    IF pc[p] = "done" /\ v[p] # None /\ s \in RemoteLocs /\ KeyOf(s) = KeyOf(Self(p))
    THEN Some([start |-> obs[p].start, rm |-> rm[p]])
    ELSE None

\* download(&self, ctx, offline), up to the call of git::retrieve
Download(p, s, offline) ==
    /\ pc[p] \in {"idle", "done"}
    /\ call' = [call EXCEPT ![p] = Some([self |-> s, offline |-> offline])]
    /\ v' = [v EXCEPT ![p] = None]
    /\ seen' = [seen EXCEPT ![p] = 0]
    /\ rm' = [rm EXCEPT ![p] = "none"]
    /\ obs' = [obs EXCEPT ![p] = NoObs]
    /\ prev' = [prev EXCEPT ![p] = Summary(p, s)]
    /\ IF download_online(s, offline)
       THEN LET path == remote_as_local(home, s)
            IN  IF path.ok
                THEN /\ remote_path' = [remote_path EXCEPT ![p] = Some(path.val)]
                     /\ result' = [result EXCEPT ![p] = None]
                     /\ pc' = [pc EXCEPT ![p] = "retrieve"]
                     /\ okSince' = okSince
                ELSE /\ remote_path' = [remote_path EXCEPT ![p] = None]
                     /\ Return(p, s, offline, Err(path.err))
       ELSE /\ remote_path' = [remote_path EXCEPT ![p] = None]
            /\ result' = [result EXCEPT ![p] = None]
            /\ pc' = [pc EXCEPT ![p] = "resolve"]
            /\ okSince' = okSince
    /\ UNCHANGED <<home, remote, fs>>

\* retrieve(dst, url, rev, credentials): make_fetch_options, then the branch on
\* dst.exists(); the two transport flags of the source location are not among
\* the parameters of retrieve
Retrieve(p) ==
    /\ pc[p] = "retrieve"
    /\ \E cfg_ok \in BOOLEAN :
        LET fo == make_fetch_options(creds(Self(p)), cfg_ok)
        IN  /\ obs' = [obs EXCEPT ![p].start = fs[Dst(p)].kind,
                                  ![p].retrieves = @ + 1,
                                  ![p].fo = IF fo.ok THEN Some(fo.val) ELSE None]
            /\ IF ~fo.ok
               THEN Fail(p, GitRetrieve(Dst(p), Self(p).uri.raw, Self(p).rev, fo.err))
               ELSE /\ pc' = [pc EXCEPT ![p] = retrieve_branch(Exists(fs[Dst(p)]))]
                    /\ v' = v
    /\ UNCHANGED <<home, remote, fs, call, remote_path, seen, rm, result, prev, okSince>>

\* a step of retrieve on the directory: r is its Result, next the position after it
\* and kept what the directory is left as when it fails
Step(p, r, next, kept, e) ==
    IF r.ok
    THEN /\ fs' = [fs EXCEPT ![Dst(p)] = r.val]
         /\ pc' = [pc EXCEPT ![p] = next]
         /\ v' = v
    ELSE /\ fs' = [fs EXCEPT ![Dst(p)] = kept]
         /\ Fail(p, e)

\* a network operation of p: the transport asks the credentials callback of the
\* fetch options for each of the credential types
Network(p) ==
    obs' = [obs EXCEPT ![p].network = @ + 1,
                       ![p].auth = @ \cup { [allowed |-> t,
                                             cred |-> credentials_cb(obs[p].fo[1], t)]
                                            : t \in CredentialTypes }]

\* retrieve, dst exists: checkout(dst, &rev)
Checkout(p) ==
    /\ pc[p] = "checkout"
    /\ \E io_ok \in BOOLEAN :
        LET r == checkout(fs[Dst(p)], Self(p).rev, io_ok)
        IN  Step(p, r, update_next(pc[p]), fs[Dst(p)],
                 GitRetrieve(Dst(p), Self(p).uri.raw, Self(p).rev, r.err))
    /\ UNCHANGED <<home, remote, call, remote_path, seen, rm, result, obs, prev, okSince>>

\* pull: discover, find_remote("origin"), remote.fetch
Fetch(p) ==
    /\ pc[p] = "fetch"
    /\ \E net_ok \in BOOLEAN :
        LET d == fs[Dst(p)]
            head == IF d.origin \in Urls THEN remote[d.origin] ELSE 0
            r == pull_fetch(d, Self(p).rev, head, net_ok)
        IN  /\ Step(p, r, update_next(pc[p]), d,
                    GitRetrieve(Dst(p), Self(p).uri.raw, Self(p).rev, r.err))
            /\ seen' = [seen EXCEPT ![p] = IF r.ok THEN head ELSE 0]
            /\ Network(p)
    /\ UNCHANGED <<home, remote, call, remote_path, rm, result, prev, okSince>>

\* pull: remote.disconnect
Disconnect(p) ==
    /\ pc[p] = "disconnect"
    /\ \E net_ok \in BOOLEAN :
        LET r == IF net_ok THEN Ok(fs[Dst(p)]) ELSE Err("disconnect")
        IN  Step(p, r, update_next(pc[p]), fs[Dst(p)],
                 GitRetrieve(Dst(p), Self(p).uri.raw, Self(p).rev, r.err))
    /\ UNCHANGED <<home, remote, call, remote_path, seen, rm, result, obs, prev, okSince>>

\* pull: find_reference("FETCH_HEAD"), repository.merge
Merge(p) ==
    /\ pc[p] = "merge"
    /\ \E io_ok \in BOOLEAN :
        LET r == pull_merge(fs[Dst(p)], io_ok)
        IN  Step(p, r, update_next(pc[p]), fs[Dst(p)],
                 GitRetrieve(Dst(p), Self(p).uri.raw, Self(p).rev, r.err))
    /\ UNCHANGED <<home, remote, call, remote_path, seen, rm, result, obs, prev, okSince>>

\* pull: repository.cleanup_state; retrieve returns Ok(())
CleanupState(p) ==
    /\ pc[p] = "cleanup_state"
    /\ \E io_ok \in BOOLEAN :
        LET r == cleanup_state(fs[Dst(p)], io_ok)
        IN  Step(p, r, update_next(pc[p]), fs[Dst(p)],
                 GitRetrieve(Dst(p), Self(p).uri.raw, Self(p).rev, r.err))
    /\ UNCHANGED <<home, remote, call, remote_path, seen, rm, result, obs, prev, okSince>>

\* clone: std::fs::create_dir_all(dst)
CreateDir(p) ==
    /\ pc[p] = "create_dir_all"
    /\ \E io_ok \in BOOLEAN :
        LET r == create_dir_all(fs[Dst(p)], io_ok)
        IN  Step(p, r, clone_next(pc[p]), fs[Dst(p)], CreateFolder(Dst(p), r.err))
    /\ UNCHANGED <<home, remote, call, remote_path, seen, rm, result, obs, prev, okSince>>

\* clone: RepoBuilder::clone(url, dst); a failed clone leaves the directory
\* as it found it (empty, or absent when another caller has removed it) or with
\* partial content
Clone(p) ==
    /\ pc[p] = "clone"
    /\ \E net_ok \in BOOLEAN :
        LET d == fs[Dst(p)]
            url == Self(p).uri.raw
            r == repo_clone(d, url, clone_rev(Self(p).rev), remote[url], net_ok)
        IN  /\ \E kept \in (IF d.kind \in {"empty", "absent"} THEN {d, PartialDir} ELSE {d}) :
                Step(p, r, clone_next(pc[p]), kept,
                     GitRetrieve(Dst(p), url, clone_rev(Self(p).rev), r.err))
            /\ seen' = [seen EXCEPT ![p] = IF r.ok THEN remote[url] ELSE 0]
            /\ Network(p)
    /\ UNCHANGED <<home, remote, call, remote_path, rm, result, prev, okSince>>

\* retrieve, after clone: checkout(dst, &rev); retrieve returns Ok(())
CloneCheckout(p) ==
    /\ pc[p] = "checkout_new"
    /\ \E io_ok \in BOOLEAN :
        LET r == checkout(fs[Dst(p)], Self(p).rev, io_ok)
        IN  Step(p, r, clone_next(pc[p]), fs[Dst(p)],
                 GitRetrieve(Dst(p), Self(p).uri.raw, Self(p).rev, r.err))
    /\ UNCHANGED <<home, remote, call, remote_path, seen, rm, result, obs, prev, okSince>>

\* download, if let Err(v) = retrieve: warn, remove the directory, return the error
OnRetrieveError(p) ==
    /\ pc[p] = "failed"
    /\ LET d == fs[Dst(p)]
       IN  \E rm_ok \in BOOLEAN :
           \E left \in (IF d.kind = "repo" THEN {d, PartialDir} ELSE {d}) :
            /\ fs' = [fs EXCEPT ![Dst(p)] = cleanup_dir(d, rm_ok, left)]
            /\ rm' = [rm EXCEPT ![p] = IF ~Exists(d) THEN "absent"
                                       ELSE IF rm_ok THEN "removed" ELSE "failed"]
            /\ Return(p, Self(p), Offline(p), cleanup_result(d, rm_ok, v[p][1], Dst(p)))
    /\ UNCHANGED <<home, remote, call, remote_path, v, seen, obs, prev>>

\* download, after the retrieval (or without one): resolve the path and check it
Resolve(p) ==
    /\ pc[p] = "resolve"
    /\ Return(p, Self(p), Offline(p), download_result(home, Self(p), fs))
    /\ UNCHANGED <<home, remote, fs, call, remote_path, v, seen, rm, obs, prev>>

\* environment: the program is killed inside retrieve and started again; what
\* the call wrote stays on disk, and a clone that was under way leaves the
\* directory empty or with partial content
Crash(p) ==
    /\ pc[p] \in InRetrieve
    /\ LET d == fs[Dst(p)]
       IN  \E left \in (IF pc[p] = "clone" /\ d.kind = "empty"
                        THEN {EmptyDir, PartialDir} ELSE {d}) :
            fs' = [fs EXCEPT ![Dst(p)] = left]
    /\ pc' = [pc EXCEPT ![p] = "idle"]
    /\ call' = [call EXCEPT ![p] = None]
    /\ remote_path' = [remote_path EXCEPT ![p] = None]
    /\ v' = [v EXCEPT ![p] = None]
    /\ seen' = [seen EXCEPT ![p] = 0]
    /\ rm' = [rm EXCEPT ![p] = "none"]
    /\ obs' = [obs EXCEPT ![p] = NoObs]
    /\ prev' = [prev EXCEPT ![p] = None]
    /\ okSince' = { t \in okSince : KeyOf(t) # KeyOf(Self(p)) }
    /\ UNCHANGED <<home, remote, result>>

\* environment: a commit is pushed to the master of a remote
RemoteCommit(u) ==
    /\ remote[u] < MaxCommits
    /\ remote' = [remote EXCEPT ![u] = @ + 1]
    /\ UNCHANGED <<home, fs, pc, call, remote_path, v, seen, rm, result, obs, prev, okSince>>

Next ==
    \/ \E p \in Procs, s \in Locs, offline \in BOOLEAN : Download(p, s, offline)
    \/ \E p \in Procs : Retrieve(p)
    \/ \E p \in Procs : Checkout(p)
    \/ \E p \in Procs : Fetch(p)
    \/ \E p \in Procs : Disconnect(p)
    \/ \E p \in Procs : Merge(p)
    \/ \E p \in Procs : CleanupState(p)
    \/ \E p \in Procs : CreateDir(p)
    \/ \E p \in Procs : Clone(p)
    \/ \E p \in Procs : CloneCheckout(p)
    \/ \E p \in Procs : OnRetrieveError(p)
    \/ \E p \in Procs : Resolve(p)
    \/ \E p \in Procs : Crash(p)
    \/ \E u \in Urls : RemoteCommit(u)

Spec == Init /\ [][Next]_vars

\* two callers, one download of a remote location each, interleaved step by
\* step, while the remotes stay as they are, with one commit or with MaxCommits
InitConc == InitFor({1, 2}, {1, MaxCommits})

NextConc ==
    \/ \E p \in Procs, s \in RemoteLocs, offline \in BOOLEAN :
          pc[p] = "idle" /\ Download(p, s, offline)
    \/ \E p \in Procs : Retrieve(p)
    \/ \E p \in Procs : Checkout(p)
    \/ \E p \in Procs : Fetch(p)
    \/ \E p \in Procs : Disconnect(p)
    \/ \E p \in Procs : Merge(p)
    \/ \E p \in Procs : CleanupState(p)
    \/ \E p \in Procs : CreateDir(p)
    \/ \E p \in Procs : Clone(p)
    \/ \E p \in Procs : CloneCheckout(p)
    \/ \E p \in Procs : OnRetrieveError(p)
    \/ \E p \in Procs : Resolve(p)

SpecConc == InitConc /\ [][NextConc]_vars

\* ------------------------------------------------------------------ properties
\* the cache directory of a source location, written out component by
\* component for the relative paths of Locs: cache/git/{host}/{path}/{rev}
KeyDir(s) == Abs(<<"cache", "git", s.uri.host[1]>> \o s.uri.path.comps \o s.rev)
\* the path download is to resolve s to
Target(s) ==
    LET base == IF s.uri.host = None THEN Abs(<<"work">> \o s.uri.path.comps) ELSE KeyDir(s)
    IN  IF s.subfolder = None THEN base ELSE Abs(base.comps \o s.subfolder[1].comps)

Returned(p) == pc[p] = "done" /\ result[p] # None
\* download returned after git::retrieve had failed
ReturnedAfterFailure(p) == Returned(p) /\ v[p] # None
\* download returned after a successful or a skipped retrieval
ReturnedAfterResolve(p) ==
    /\ Returned(p) /\ v[p] = None
    /\ (remote_path[p] # None \/ Offline(p) \/ Self(p).uri.host = None)

\* C1 as stated: whenever download returns an error after git::retrieve
\* failed, the cache directory does not exist.
C1_Original ==
    \A p \in Procs : ReturnedAfterFailure(p) => ~Exists(fs[Dst(p)])

\* C1 amended: after a failed git::retrieve download returns an error, and
\* unless that error is RemoveFolder (the removal itself failed) the cache
\* directory does not exist when download returns.
C1_NoPartialCache ==
    \A p \in Procs : ReturnedAfterFailure(p) =>
        /\ ~result[p][1].ok
        /\ result[p][1].err.kind # "RemoveFolder" => ~Exists(fs[Dst(p)])

\* a retrieval failed on a directory that held a working tree, and it was removed
C1_Witness ==
    \E p \in Procs : /\ ReturnedAfterFailure(p) /\ rm[p] = "removed"
                     /\ v[p][1].source = "network" /\ ~Exists(fs[Dst(p)])

\* C2: whenever download returns Ok(path), path exists on disk and is the
\* cache directory (remote) or the canonicalized local path (local), with the
\* subfolder appended when one is set.
C2_OkPathExists ==
    \A p \in Procs : (Returned(p) /\ result[p][1].ok) =>
        /\ PathExists(fs, result[p][1].val)
        /\ result[p][1].val = Target(Self(p))

\* download returned Ok for a remote source with a subfolder
C2_Witness ==
    \E p \in Procs : /\ Returned(p) /\ result[p][1].ok /\ ~Offline(p)
                     /\ Self(p).uri.host # None /\ Self(p).subfolder # None

\* C3: a download that is offline or of a local source never enters
\* git::retrieve, never holds a retrieval error and never changes the cache
\* directories: it only resolves the path and returns.
C3_NoRetrievalOfflineOrLocal ==
    [][\A p \in Procs : call'[p] # None =>
          LET c == call'[p][1]
          IN  (c.offline \/ c.self.uri.host = None) =>
                /\ pc'[p] \in {"resolve", "done"}
                /\ v'[p] = None
                /\ remote_path'[p] = None
                /\ fs' = fs]_vars

\* an offline download of a remote source returned with its cache present
C3_Witness ==
    \E p \in Procs : /\ Returned(p) /\ Offline(p) /\ Self(p).uri.host # None
                     /\ result[p][1].ok /\ fs[KeyDir(Self(p))].kind = "repo"

\* C4 as stated: after a successful or skipped retrieval, if the path to resolve
\* does not exist, download fails with LocalPathNotFound carrying the path, the
\* raw source string and the subfolder (remote sources: when the cache root is known).
C4_Original ==
    \A p \in Procs :
        (/\ ReturnedAfterResolve(p)
         /\ (Self(p).uri.host = None \/ home)
         /\ ~PathExists(fs, Target(Self(p)))) =>
            result[p][1] = Err(LocalPathNotFound(Target(Self(p)), Self(p).uri.raw,
                                                 Self(p).subfolder))

\* the local path of a local source exists, so that it can be canonicalized
LocalBaseExists(s) == Abs(<<"work">> \o s.uri.path.comps) \in LocalTree

\* C4 amended: after a successful or skipped retrieval, a path that was
\* computed (remote source with a known cache root, or local source whose
\* path exists) and does not exist makes download fail with LocalPathNotFound
\* carrying the path, the raw source and the subfolder; a local source whose
\* own path does not exist fails with Io, and a remote source without a cache
\* root with ApplicationPathNotFound.
C4_MissingPath ==
    \A p \in Procs : ReturnedAfterResolve(p) =>
        LET s == Self(p) IN
        /\ (s.uri.host = None /\ ~LocalBaseExists(s)) => result[p][1] = Err(Io)
        /\ (s.uri.host # None /\ ~home) => result[p][1] = Err(ApplicationPathNotFound)
        /\ (/\ (s.uri.host # None /\ home) \/ (s.uri.host = None /\ LocalBaseExists(s))
            /\ ~PathExists(fs, Target(s))) =>
              result[p][1] = Err(LocalPathNotFound(Target(s), s.uri.raw, s.subfolder))

\* the subfolder of a remote source is missing from the cached working tree
C4_Witness ==
    \E p \in Procs : /\ ReturnedAfterResolve(p) /\ ~result[p][1].ok
                     /\ result[p][1].err.kind = "LocalPathNotFound"
                     /\ Self(p).uri.host # None /\ Self(p).subfolder # None
                     /\ fs[KeyDir(Self(p))].kind = "repo"

\* git::retrieve returned Ok(()) to download
RetrieveOk(p) == pc[p] = "resolve" /\ remote_path[p] # None

\* C5: after every successful retrieve with rev = master into a destination
\* cloned from the same url, the working tree holds the content of the
\* remote's latest commit at the time the call cloned or fetched.
C5_ContentConverges ==
    \A p \in Procs :
        (/\ RetrieveOk(p) /\ Self(p).rev = Master
         /\ fs[Dst(p)].origin = Self(p).uri.raw) =>
            /\ fs[Dst(p)].kind = "repo"
            /\ seen[p] >= 1
            /\ fs[Dst(p)].wt = seen[p]

\* a later retrieve into a clone of the first commit brought the third commit
C5_Witness ==
    \E p \in Procs : /\ RetrieveOk(p) /\ Self(p).rev = Master
                     /\ fs[Dst(p)].origin = Self(p).uri.raw
                     /\ fs[Dst(p)].master = 1 /\ seen[p] = 3 /\ fs[Dst(p)].wt = 3

\* C6: retrieve clones exactly when the destination is absent and updates
\* (checkout, fetch, merge) exactly when it exists; an existing working tree
\* is never cloned again: no step replaces it by another clone.
C6_BranchOnExistence ==
    [][/\ \A p \in Procs : pc[p] = "retrieve" =>
            /\ pc'[p] \in InClone => ~Exists(fs[Dst(p)])
            /\ pc'[p] \in InUpdate => Exists(fs[Dst(p)])
       /\ \A d \in Dirs : (fs[d].kind = "repo" /\ fs'[d].kind = "repo") =>
            /\ fs'[d].origin = fs[d].origin
            /\ fs'[d].master = fs[d].master
       /\ \A p \in Procs : (pc[p] = "clone" /\ pc'[p] = "checkout_new") =>
            fs[Dst(p)].kind = "empty"]_vars

\* a second retrieve is merging into the working tree the first one cloned
C6_Witness ==
    \E p \in Procs : /\ pc[p] = "cleanup_state" /\ fs[Dst(p)].kind = "repo"
                     /\ fs[Dst(p)].fetch_head > fs[Dst(p)].master

\* the cache keys (host, path, revision) the resolver is compared on
Keys ==
    [host : {"h", "g"},
     path : {Rel(<<"a", "b">>), Rel(<<"a">>), Abs(<<"a", "b">>)},
     rev : {Master, <<"b", "master">>}]
KeyLoc(k) == SourceLoc("k", Some(k.host), k.path, k.rev, None)

\* C7 as stated: two distinct cache keys never share a cache directory: the
\* directory a retrieval works on is the directory of no other key.
C7_DistinctKeysDistinctDirs ==
    \A p \in Procs : pc[p] \in InRetrieve =>
        \A k \in Keys : k # KeyOf(Self(p)) =>
            remote_as_local(home, KeyLoc(k)).val # Dst(p)

\* C8: the destination of the retrieval and of the cleanup is the cache
\* directory of (host, path, revision), the same for source locations that
\* differ only in subfolder; the subfolder is appended to the returned path only.
C8_SubfolderNotInKey ==
    \A p \in Procs :
        /\ remote_path[p] # None =>
            /\ Dst(p) = KeyDir(Self(p))
            /\ \A s \in RemoteLocs :
                 (\E f \in {None, Some(Sub)} : s = [Self(p) EXCEPT !.subfolder = f]) =>
                    remote_as_local(home, s) = Ok(Dst(p))
        /\ (Returned(p) /\ rm[p] = "removed") => ~Exists(fs[KeyDir(Self(p))])
        /\ (Returned(p) /\ result[p][1].ok /\ remote_path[p] # None) =>
              result[p][1].val =
                 IF Self(p).subfolder = None THEN Dst(p)
                 ELSE Abs(Dst(p).comps \o Self(p).subfolder[1].comps)

\* a retrieval for a source location with a subfolder failed and was cleaned up
C8_Witness ==
    \E p \in Procs : /\ Returned(p) /\ rm[p] = "removed" /\ Self(p).subfolder # None

\* C9: after a failed retrieval download never returns Ok; it returns
\* RemoveFolder with the cache path when the directory existed and its removal
\* failed, and exactly the retrieval error otherwise.
C9_CleanupErrorSupersedes ==
    \A p \in Procs : ReturnedAfterFailure(p) =>
        /\ ~result[p][1].ok
        /\ rm[p] \in {"absent", "removed", "failed"}
        /\ rm[p] = "failed" =>
            /\ result[p][1].err.kind = "RemoveFolder"
            /\ result[p][1].err.path = Dst(p)
            /\ Exists(fs[Dst(p)])
        /\ rm[p] \in {"absent", "removed"} =>
            /\ result[p][1].err = v[p][1]
            /\ ~Exists(fs[Dst(p)])

\* the removal of the cache directory failed
C9_Witness ==
    \E p \in Procs : /\ ReturnedAfterFailure(p) /\ rm[p] = "failed"
                     /\ fs[Dst(p)].kind = "partial"

\* C10 as stated: every error of git::retrieve is a GitRetrieve carrying the
\* destination, the url and the requested revision.
C10_Original ==
    \A p \in Procs : v[p] # None =>
        /\ v[p][1].kind = "GitRetrieve"
        /\ v[p][1].dst = Dst(p)
        /\ v[p][1].url = Self(p).uri.raw
        /\ v[p][1].rev = Self(p).rev

CloneCauses == {"clone: exists and is not an empty directory", "clone: network",
                "clone: reference not found"}

\* C10 amended: a failure of directory creation is a CreateFolder error
\* carrying the destination; every other failure is a GitRetrieve carrying
\* the destination, the url and the underlying error, with the requested
\* revision, except that a failed clone carries the revision master.
C10_RetrieveErrors ==
    \A p \in Procs : v[p] # None =>
        LET e == v[p][1] IN
        IF e.source = "create_dir_all"
        THEN e.kind = "CreateFolder" /\ e.path = Dst(p)
        ELSE /\ e.kind = "GitRetrieve"
             /\ e.dst = Dst(p)
             /\ e.url = Self(p).uri.raw
             /\ e.rev = IF e.source \in CloneCauses THEN Master ELSE Self(p).rev

\* the clone failed for a request of another revision than master
C10_Witness ==
    \E p \in Procs : /\ v[p] # None /\ v[p][1].kind = "GitRetrieve"
                     /\ v[p][1].source = "clone: network"
                     /\ Self(p).rev # Master /\ v[p][1].rev = Master

\* C11 as stated: when the destination is absent, the clone is of the
\* requested revision and a successful clone ends retrieve with success.
C11_Original ==
    [][\A p \in Procs :
        (pc[p] = "clone" /\ pc'[p] \notin {"clone", "failed", "idle"}) =>
            /\ pc'[p] = "resolve"
            /\ fs'[Dst(p)].wt = revparse_single(fs'[Dst(p)], Self(p).rev)]_vars

\* C11 amended: when the destination is absent, retrieve creates the
\* directory, clones the branch master of the url into it whatever revision is
\* requested, and then checks the requested revision out; retrieve succeeds
\* only after that checkout has succeeded.
C11_CloneThenCheckout ==
    [][\A p \in Procs :
        /\ (pc[p] = "create_dir_all" /\ pc'[p] \notin {"create_dir_all", "failed", "idle"}) =>
            pc'[p] = "clone" /\ Exists(fs'[Dst(p)])
        /\ (pc[p] = "clone" /\ pc'[p] \notin {"clone", "failed", "idle"}) =>
            /\ pc'[p] = "checkout_new"
            /\ fs[Dst(p)].kind = "empty"
            /\ fs'[Dst(p)] = [kind |-> "repo", origin |-> Self(p).uri.raw,
                              master |-> remote[Self(p).uri.raw],
                              wt |-> remote[Self(p).uri.raw],
                              fetch_head |-> 0, merging |-> FALSE]
        /\ (pc[p] \in InClone /\ pc'[p] = "resolve") =>
            /\ pc[p] = "checkout_new"
            /\ revparse_single(fs[Dst(p)], Self(p).rev) # 0
            /\ fs'[Dst(p)] = [fs[Dst(p)] EXCEPT
                                !.wt = revparse_single(fs[Dst(p)], Self(p).rev)]]_vars

\* a tag was requested and the clone has checked out the head of master,
\* which is not the commit of the tag; the checkout of the tag is still to come
C11_Witness ==
    \E p \in Procs : /\ pc[p] = "checkout_new" /\ Self(p).rev # Master
                     /\ fs[Dst(p)].wt = fs[Dst(p)].master
                     /\ fs[Dst(p)].wt # revparse_single(fs[Dst(p)], Self(p).rev)

\* C12 as stated: the fetch options of a retrieval use the proxy
\* auto-detection exactly when disable_proxy_options is false, and verify the
\* certificate of the server exactly when unsecure_certificate is false.
C12_FlagsReachTransport ==
    \A p \in Procs : obs[p].fo # None =>
        /\ obs[p].fo[1].proxy_auto = ~Self(p).disable_proxy_options
        /\ obs[p].fo[1].verify_certificate = ~Self(p).unsecure_certificate

\* C13: within one call every request for credentials gets the same answer,
\* whatever type is asked for: the user and password pair when both are set,
\* and otherwise the credential helper chain, without the value supplied.
C13_OneAuthStrategy ==
    \A p \in Procs : \A a \in obs[p].auth :
        IF Self(p).usr # None /\ Self(p).pwd # None
        THEN a.cred = [cred |-> "userpass_plaintext",
                       usr |-> Self(p).usr[1], pwd |-> Self(p).pwd[1]]
        ELSE a.cred = [cred |-> "try_next_credential"]

\* only the user is set, and requests of both types have been answered
C13_Witness ==
    \E p \in Procs : /\ call[p] # None
                     /\ Self(p).usr # None /\ Self(p).pwd = None
                     /\ { a.allowed : a \in obs[p].auth } = CredentialTypes

\* C14: nothing is tried again: a download calls retrieve at most once, a
\* retrieve does at most one network operation, the clone or the fetch, and
\* once retrieve has failed the call does nothing more than the cleanup of
\* download and its return.
C14_NoRetry ==
    [][\A p \in Procs :
        /\ obs'[p].retrieves <= 1
        /\ obs'[p].network <= 1
        /\ obs'[p].network # obs[p].network /\ pc[p] # "done" /\ pc'[p] # "idle" =>
            pc[p] = IF obs[p].start = "absent" THEN "clone" ELSE "fetch"
        /\ v'[p] # None => pc'[p] \in {"failed", "done"}
        /\ pc[p] = "failed" =>
            /\ pc'[p] \in {"failed", "done"}
            /\ obs'[p] = obs[p]]_vars

\* the fetch, the one network operation of the call, failed and download returned
C14_Witness ==
    \E p \in Procs : /\ ReturnedAfterFailure(p)
                     /\ v[p][1].source = "network"
                     /\ obs[p].retrieves = 1 /\ obs[p].network = 1

\* C15: on an existing destination the steps run in the order checkout,
\* fetch, disconnect, merge of FETCH_HEAD, cleanup of the merge state; a step
\* starts only when the step before it has succeeded, and the first step that
\* fails ends retrieve with its error.
C15_UpdateInOrder ==
    [][\A p \in Procs :
        /\ (pc[p] = "retrieve" /\ pc'[p] \in InUpdate) => pc'[p] = "checkout"
        /\ pc[p] = "checkout" =>
            /\ pc'[p] \in {"checkout", "fetch", "failed", "idle"}
            /\ pc'[p] = "fetch" =>
                fs'[Dst(p)].wt = revparse_single(fs[Dst(p)], Self(p).rev)
        /\ pc[p] = "fetch" =>
            /\ pc'[p] \in {"fetch", "disconnect", "failed", "idle"}
            /\ pc'[p] = "disconnect" => fs'[Dst(p)].fetch_head # 0
        /\ pc[p] = "disconnect" => pc'[p] \in {"disconnect", "merge", "failed", "idle"}
        /\ pc[p] = "merge" =>
            /\ pc'[p] \in {"merge", "cleanup_state", "failed", "idle"}
            /\ pc'[p] = "cleanup_state" => fs'[Dst(p)].merging
        /\ pc[p] = "cleanup_state" =>
            /\ pc'[p] \in {"cleanup_state", "resolve", "failed", "idle"}
            /\ pc'[p] = "resolve" => ~fs'[Dst(p)].merging
        /\ (pc[p] \in InUpdate /\ pc'[p] = "failed") =>
            /\ v'[p] # None
            /\ fs' = fs]_vars

\* an update went through its five steps and brought a new commit in
C15_Witness ==
    \E p \in Procs : /\ RetrieveOk(p) /\ obs[p].start = "repo"
                     /\ fs[Dst(p)].fetch_head > fs[Dst(p)].master
                     /\ fs[Dst(p)].wt = fs[Dst(p)].fetch_head
                     /\ ~fs[Dst(p)].merging

\* an offline download of p has returned; p's download before it was an online
\* one of the same cache key that found a working copy in the cache and failed
\* in retrieve
OfflineAfterFailedSync(p) ==
    /\ Returned(p) /\ Offline(p) /\ Self(p) \in RemoteLocs
    /\ prev[p] # None /\ prev[p][1].start = "repo"

\* C16 as stated: when an online download of a key that has a working copy
\* in the cache fails in retrieve, the working copy is removed, and the offline
\* download of that key that follows fails with LocalPathNotFound.
C16_Original ==
    \A p \in Procs : OfflineAfterFailedSync(p) =>
        /\ ~Exists(fs[KeyDir(Self(p))])
        /\ result[p][1] =
             Err(LocalPathNotFound(Target(Self(p)), Self(p).uri.raw, Self(p).subfolder))

\* C16 amended: the working copy is removed, and the offline download that
\* follows fails with LocalPathNotFound, unless the removal itself failed; when
\* it failed the directory is still there, and the offline download of the
\* directory itself returns Ok.
C16_FailedSyncRemovesCache ==
    \A p \in Procs : OfflineAfterFailedSync(p) =>
        IF prev[p][1].rm = "failed"
        THEN /\ Exists(fs[KeyDir(Self(p))])
             /\ Self(p).subfolder = None => result[p][1] = Ok(KeyDir(Self(p)))
        ELSE /\ ~Exists(fs[KeyDir(Self(p))])
             /\ result[p][1] =
                  Err(LocalPathNotFound(Target(Self(p)), Self(p).uri.raw,
                                        Self(p).subfolder))

\* the failed online download removed the working copy and the offline
\* download after it found nothing
C16_Witness ==
    \E p \in Procs : /\ OfflineAfterFailedSync(p) /\ prev[p][1].rm = "removed"
                     /\ ~result[p][1].ok
                     /\ result[p][1].err.kind = "LocalPathNotFound"

\* C17 as stated: after an online download of a source location has
\* returned Ok, and with no failed download of the same cache key since, an
\* offline download of that location returns Ok with the same path and leaves
\* the cache as it is.
C17_OfflineReuse ==
    [][\A p \in Procs :
        (pc[p] = "resolve" /\ pc'[p] = "done" /\ Offline(p) /\ Self(p) \in okSince) =>
            /\ result'[p][1] = Ok(Target(Self(p)))
            /\ fs' = fs]_vars

\* the kinds of a destination that exists and is not a working copy
Broken == {"empty", "partial"}

C19_NoMutualExclusion ==
    [][\A p \in Procs :
        /\ (pc[p] = "resolve" /\ pc'[p] = "done" /\ result'[p][1].ok) =>
            /\ PathExists(fs, result'[p][1].val)
            /\ fs' = fs
        /\ (/\ Returned(p) /\ result[p][1].ok
            /\ fs[KeyDir(Self(p))].kind = "repo"
            /\ fs'[KeyDir(Self(p))].kind # "repo") =>
              \E q \in Procs \ {p} :
                  /\ pc[q] = "failed" /\ pc'[q] = "done"
                  /\ Dst(q) = KeyDir(Self(p))
                  /\ rm'[q] \in {"removed", "failed"}]_vars

\* two downloads of one cache key both found the destination absent and both
\* went as far as the clone; one has returned Ok with a path in the cache directory,
\* and the cleanup of the other, which failed, has removed that directory
C19_Witness ==
    \E p \in Procs, q \in Procs :
        /\ p # q
        /\ Returned(p) /\ result[p][1].ok /\ remote_path[p] # None
        /\ ReturnedAfterFailure(q) /\ rm[q] = "removed"
        /\ KeyOf(Self(p)) = KeyOf(Self(q)) /\ Dst(p) = Dst(q)
        /\ obs[p].start = "absent" /\ obs[q].start = "absent"
        /\ obs[p].network = 1 /\ obs[q].network = 1
        /\ result[p][1].val = Target(Self(p))
        /\ ~Exists(fs[Dst(p)])

====
